---- MODULE Spec2Model ----
(***************************************************************************)
(* Model of dashboard.py: a Streamlit script that loads a JSON document of *)
(* debt contracts (cached by st.cache_data), normalises it into a table,   *)
(* filters it by the sidebar selections and renders the aggregates.        *)
(*                                                                         *)
(* Amounts are integers (centavos).  A table cell whose key was missing in *)
(* the JSON record is NaN (NaNStr for text, NaNNum for numbers, NaT for    *)
(* dates), as pd.json_normalize and pd.to_datetime(errors='coerce') leave  *)
(* it.  An uncaught Python exception ends the script run in pc = "erro".   *)
(***************************************************************************)
EXTENDS Integers, Sequences, FiniteSets, TLC

VARIABLES
    arquivo,          \* the file dados.json on disk
    cache,            \* st.cache_data store of carregar_dados
    leituras,         \* how many times the file was opened and decoded
    preparos,         \* how many times the records were normalised
    execucoes,        \* script runs of this process so far
    pc,               \* position of the current script run
    dados,            \* module-level dados / Dashboard.dados
    contratos,        \* Dashboard.contratos
    df_filtrado,      \* Dashboard.df_filtrado
    ano_selecionado,  \* Dashboard.ano_selecionado
    filtro_socio,     \* value of the "Sócio" multiselect
    filtro_banco,     \* value of the "Banco" multiselect, or None
    filtro_contrato,  \* value of the "Contrato" multiselect
    total_divida,     \* renderizar_resumo: total_divida
    metrica,          \* renderizar_resumo: text of st.metric
    consolidado,      \* renderizar_tabela_consolidada: consolidado
    divida_por_banco, \* renderizar_graficos: divida_por_banco
    agrupado,         \* renderizar_graficos: agrupado
    granularidade,    \* renderizar_graficos: which branch built agrupado
    df_detalhada,     \* renderizar_tabela_detalhada: rows shown
    passos,           \* rendering steps called in this run, in call order
    mensagens,        \* st.error / st.warning / st.info shown in this run
    locale_ok,        \* does locale.currency succeed on this host
    valor,            \* argument of a direct formatar_moeda call
    texto             \* result of a direct formatar_moeda call

vars == <<arquivo, cache, leituras, preparos, execucoes, pc, dados, contratos,
          df_filtrado, ano_selecionado, filtro_socio, filtro_banco,
          filtro_contrato, total_divida, metrica, consolidado,
          divida_por_banco, agrupado, granularidade, df_detalhada, passos,
          mensagens, locale_ok, valor, texto>>

(***************************************************************************)
(* Bounds                                                                  *)
(***************************************************************************)
MaxContratos == 2
MaxExecucoes == 2
MaxCentavos == 101000
MaxExpoente == 4

(***************************************************************************)
(* Values                                                                  *)
(***************************************************************************)
NaNStr == "NaN"
NaNNum == -1
NaT == [ano |-> 0, mes |-> 0]

\* string universes, each in ascending lexicographic order
OrdemSocios == <<"Ana", "Bruno">>
OrdemBancos == <<"BB", "Caixa">>
OrdemTipos == <<"Custeio", "Investimento">>

Range(s) == {s[i] : i \in DOMAIN s}

Socios == Range(OrdemSocios)
Bancos == Range(OrdemBancos)
Tipos == Range(OrdemTipos)
Valores == {50, 123400}
DatasValidas == {[ano |-> 2021, mes |-> 3], [ano |-> 2022, mes |-> 1],
                 [ano |-> 2022, mes |-> 3]}

\* a raw dataContratacao: key missing, a string that is no date, or a date
DatasBrutas ==
    {[k |-> "ausente", d |-> NaT], [k |-> "invalida", d |-> NaT]}
        \cup {[k |-> "ok", d |-> x] : x \in DatasValidas}

\* one element of the JSON array "contratos"; a missing key is NaN
RegistroBase ==
    [socioResponsavel |-> "Ana", banco |-> "BB", tipoContrato |-> "Custeio",
     valorTotal |-> 50,
     dataContratacao |-> [k |-> "ok", d |-> [ano |-> 2022, mes |-> 1]]]

\* the records of the documents explored: RegistroBase and every record
\* that differs from it in one field (another value, or the key missing)
RegistrosBrutos ==
    {[RegistroBase EXCEPT !.socioResponsavel = x] : x \in Socios \cup {NaNStr}}
        \cup {[RegistroBase EXCEPT !.banco = x] : x \in Bancos \cup {NaNStr}}
        \cup {[RegistroBase EXCEPT !.tipoContrato = x] : x \in Tipos \cup {NaNStr}}
        \cup {[RegistroBase EXCEPT !.valorTotal = x] : x \in Valores \cup {NaNNum}}
        \cup {[RegistroBase EXCEPT !.dataContratacao = x] : x \in DatasBrutas}

SeqAte(S, n) == UNION {[1..k -> S] : k \in 0..n}

DataFrameVazio == [colunas |-> {}, linhas |-> <<>>]
Nenhum == [def |-> FALSE, itens |-> {}]
Algum(s) == [def |-> TRUE, itens |-> s]

(***************************************************************************)
(* formatar_moeda                                                          *)
(***************************************************************************)
Digito(d) == <<"0", "1", "2", "3", "4", "5", "6", "7", "8", "9">>[d + 1]

RECURSIVE Decimal(_)
Decimal(n) ==
    IF n < 10 THEN <<Digito(n)>>
    ELSE Append(Decimal(n \div 10), Digito(n % 10))

TresDigitos(n) ==
    <<Digito(n \div 100), Digito((n \div 10) % 10), Digito(n % 10)>>

\* the integer part under the "," option of Python's format mini-language
RECURSIVE Milhares(_)
Milhares(n) ==
    IF n < 1000 THEN Decimal(n)
    ELSE Milhares(n \div 1000) \o <<",">> \o TresDigitos(n % 1000)

\* f'{valor:,.2f}' of an amount of c centavos; NaN prints as nan
FormatoPython(c) ==
    IF c = NaNNum THEN <<"n", "a", "n">>
    ELSE Milhares(c \div 100) \o <<".">>
             \o <<Digito((c % 100) \div 10), Digito(c % 10)>>

\* str.replace for one-character patterns
replace(s, de, para) ==
    [i \in DOMAIN s |-> IF s[i] = de THEN para ELSE s[i]]

\* what locale.currency(valor, grouping=True) returns when it does not raise:
\* decided by the host's locale tables, opaque here
LocaleCurrency(c) == <<"locale.currency">>

FallbackSemMarcador(c, ok) ==
    IF ok THEN LocaleCurrency(c)
    ELSE <<"R", "$", " ">> \o replace(replace(FormatoPython(c), ",", "."), ".", ",")

formatar_moeda(c, ok) ==
    IF ok THEN LocaleCurrency(c)
    ELSE <<"R", "$", " ">>
             \o replace(replace(replace(FormatoPython(c), ",", "v"), ".", ","),
                        "v", ".")

(***************************************************************************)
(* The JSON document and carregar_dados                                    *)
(***************************************************************************)
Caminhos == {"dados.json"}

\* json.load's result as far as the script looks at it: is the dict empty,
\* has it the key "contratos", the list under it, and whether any contract
\* carries the key vencimentoContrato
DictVazio ==
    [vazio |-> TRUE, temContratos |-> FALSE, contratos |-> <<>>,
     temVencimento |-> FALSE]

Documentos ==
    {DictVazio,
     [vazio |-> FALSE, temContratos |-> FALSE, contratos |-> <<>>,
      temVencimento |-> FALSE]}
        \cup {[vazio |-> FALSE, temContratos |-> TRUE, contratos |-> cs,
               temVencimento |-> v] :
                  cs \in SeqAte(RegistrosBrutos, MaxContratos), v \in BOOLEAN}

Arquivos ==
    {[estado |-> e, doc |-> DictVazio] : e \in {"inexistente", "invalido"}}
        \cup {[estado |-> "ok", doc |-> d] :
                  d \in {x \in Documentos :
                            x.temVencimento => x.contratos # <<>>}}

CacheVazio == [cheio |-> FALSE, retorno |-> DictVazio, erros |-> <<>>]

\* the body of carregar_dados: <<return value, st.error texts, file reads>>
carregar_dados(arq) ==
    IF arq.estado = "inexistente"
    THEN [retorno |-> DictVazio, erros |-> <<"arquivo nao encontrado">>,
          lido |-> 0]
    ELSE IF arq.estado = "invalido"
    THEN [retorno |-> DictVazio, erros |-> <<"erro ao decodificar">>,
          lido |-> 1]
    ELSE [retorno |-> arq.doc, erros |-> <<>>, lido |-> 1]

(***************************************************************************)
(* Dashboard.preparar_dados                                                *)
(***************************************************************************)
\* pd.to_datetime(..., errors='coerce')
to_datetime(bruta) == IF bruta.k = "ok" THEN bruta.d ELSE NaT

\* columns of pd.json_normalize: the union of the records' keys
ColunasDe(cs, temVenc) ==
    {c \in {"socioResponsavel"} : \E i \in DOMAIN cs : cs[i].socioResponsavel # NaNStr}
        \cup {c \in {"banco"} : \E i \in DOMAIN cs : cs[i].banco # NaNStr}
        \cup {c \in {"tipoContrato"} : \E i \in DOMAIN cs : cs[i].tipoContrato # NaNStr}
        \cup {c \in {"valorTotal"} : \E i \in DOMAIN cs : cs[i].valorTotal # NaNNum}
        \cup {c \in {"dataContratacao", "dataContratacaoFormatada"} :
                 \E i \in DOMAIN cs : cs[i].dataContratacao.k # "ausente"}
        \cup {c \in {"vencimentoContrato", "vencimentoContratoFormatada"} : temVenc}

preparar_dados(d) ==
    [colunas |-> ColunasDe(d.contratos, d.temVencimento),
     linhas |-> [i \in DOMAIN d.contratos |->
                    [d.contratos[i] EXCEPT !.dataContratacao = to_datetime(@)]]]

(***************************************************************************)
(* Dashboard.renderizar_filtros                                            *)
(***************************************************************************)
Coluna(df, c) == {df.linhas[i][c] : i \in DOMAIN df.linhas}

\* sorted(...) of strings drawn from a universe listed in ascending order
Ordenar(ordem, S) == SelectSeq(ordem, LAMBDA x : x \in S)

\* df["dataContratacao"].dropna().dt.year.unique()
AnosConhecidos(df) ==
    {df.linhas[i].dataContratacao.ano :
        i \in {j \in DOMAIN df.linhas : df.linhas[j].dataContratacao # NaT}}

\* self.contratos[c] raises KeyError without the column; sorted() raises
\* TypeError when the column mixes text with NaN
OpcoesFalham(df, c) ==
    \/ c \notin df.colunas
    \/ NaNStr \in Coluna(df, c)

\* lines 78-98 raise: the required columns always, banco only when present
FiltrosFalham(df) ==
    \/ OpcoesFalham(df, "socioResponsavel")
    \/ "banco" \in df.colunas /\ OpcoesFalham(df, "banco")
    \/ OpcoesFalham(df, "tipoContrato")

\* Series.isin(values)
isin(v, itens) == v \in itens

\* .dt.year.isin(filtro_ano): the year of NaT is NaN, which no option equals
AnoIsin(d, itens) == d # NaT /\ d.ano \in itens

\* lines 104-109: the boolean mask cond, one entry per row
CondSemBanco(df, fs, fb, fc, fa) ==
    [i \in DOMAIN df.linhas |->
        /\ isin(df.linhas[i].socioResponsavel, fs)
        /\ isin(df.linhas[i].tipoContrato, fc)
        /\ (fa.def => AnoIsin(df.linhas[i].dataContratacao, fa.itens))]

CondSemAno(df, fs, fb, fc, fa) ==
    [i \in DOMAIN df.linhas |->
        /\ isin(df.linhas[i].socioResponsavel, fs)
        /\ isin(df.linhas[i].tipoContrato, fc)
        /\ (fb.def => isin(df.linhas[i].banco, fb.itens))]

Cond(df, fs, fb, fc, fa) ==
    [i \in DOMAIN df.linhas |->
        /\ isin(df.linhas[i].socioResponsavel, fs)
        /\ isin(df.linhas[i].tipoContrato, fc)
        /\ (fb.def => isin(df.linhas[i].banco, fb.itens))
        /\ (fa.def => AnoIsin(df.linhas[i].dataContratacao, fa.itens))]

\* line 111: df[cond] keeps the rows whose mask entry is true, in order
RECURSIVE Mascara(_, _, _)
Mascara(linhas, cond, i) ==
    IF i > Len(linhas) THEN <<>>
    ELSE (IF cond[i] THEN <<linhas[i]>> ELSE <<>>)
             \o Mascara(linhas, cond, i + 1)

Indexar(df, cond) ==
    [colunas |-> df.colunas, linhas |-> Mascara(df.linhas, cond, 1)]

(***************************************************************************)
(* Aggregations: groupby / sum / count as pandas computes them             *)
(***************************************************************************)
\* Series.sum() skips NaN; the sum of nothing is 0
RECURSIVE Soma(_)
Soma(linhas) ==
    IF linhas = <<>> THEN 0
    ELSE (IF Head(linhas).valorTotal = NaNNum THEN 0 ELSE Head(linhas).valorTotal)
             + Soma(Tail(linhas))

\* the aggregation 'count' counts the cells that are not NaN
Conta(linhas) == Len(SelectSeq(linhas, LAMBDA r : r.valorTotal # NaNNum))

\* groupby(c) on a text column: one group per value, NaN keys dropped,
\* groups in ascending key order
GrupoTexto(linhas, c, k) == SelectSeq(linhas, LAMBDA r : r[c] = k)

ChavesTexto(linhas, c, ordem) ==
    Ordenar(ordem, {linhas[i][c] : i \in DOMAIN linhas} \ {NaNStr})

RECURSIVE OrdenarInt(_)
OrdenarInt(S) ==
    IF S = {} THEN <<>>
    ELSE LET m == CHOOSE x \in S : \A y \in S : x <= y
         IN <<m>> \o OrdenarInt(S \ {m})

meses_pt ==
    <<"Janeiro", "Fevereiro", "Março", "Abril", "Maio", "Junho", "Julho",
      "Agosto", "Setembro", "Outubro", "Novembro", "Dezembro">>

\* lines 116-125
TabelaConsolidada(df, ok) ==
    LET ks == ChavesTexto(df.linhas, "socioResponsavel", OrdemSocios)
    IN [i \in DOMAIN ks |->
           LET g == GrupoTexto(df.linhas, "socioResponsavel", ks[i])
           IN [socio |-> ks[i], qtd |-> Conta(g), total |-> Soma(g),
               texto |-> formatar_moeda(Soma(g), ok)]]

DividaPorBancoContagem(df) ==
    LET ks == ChavesTexto(df.linhas, "banco", OrdemBancos)
    IN [i \in DOMAIN ks |->
           [banco |-> ks[i],
            valorTotal |-> Conta(GrupoTexto(df.linhas, "banco", ks[i]))]]

\* line 139
DividaPorBanco(df) ==
    LET ks == ChavesTexto(df.linhas, "banco", OrdemBancos)
    IN [i \in DOMAIN ks |->
           [banco |-> ks[i],
            valorTotal |-> Soma(GrupoTexto(df.linhas, "banco", ks[i]))]]

\* line 168: the branch of the second chart
PorMesUmOuMais(fa) == fa.def /\ Cardinality(fa.itens) >= 1

PorMes(fa) == fa.def /\ Cardinality(fa.itens) = 1

\* lines 169-177: groupby("Mes"); the month of NaT is NaN and is dropped
AgrupadoPorMes(df) ==
    LET conhecidas == SelectSeq(df.linhas, LAMBDA r : r.dataContratacao # NaT)
        ks == OrdenarInt({conhecidas[i].dataContratacao.mes :
                              i \in DOMAIN conhecidas})
    IN [i \in DOMAIN ks |->
           [chave |-> ks[i], rotulo |-> meses_pt[ks[i]],
            valorTotal |->
                Soma(SelectSeq(conhecidas,
                               LAMBDA r : r.dataContratacao.mes = ks[i]))]]

\* line 202: .dt.year.astype(int) raises on a NaN year
AnoFalha(df) == \E i \in DOMAIN df.linhas : df.linhas[i].dataContratacao = NaT

\* lines 202-203: groupby("Ano")
AgrupadoPorAno(df) ==
    LET ks == OrdenarInt({df.linhas[i].dataContratacao.ano :
                              i \in DOMAIN df.linhas})
    IN [i \in DOMAIN ks |->
           [chave |-> ks[i], rotulo |-> "ano",
            valorTotal |->
                Soma(SelectSeq(df.linhas,
                               LAMBDA r : r.dataContratacao.ano = ks[i]))]]

\* line 281: df_detalhada[colunas_desejadas] raises KeyError unless every
\* wanted column exists ("numeroContrato" is created when missing, and
\* "Duração em Anos" exists when both date columns do)
DetalhadaFalha(df) ==
    ~ ({"socioResponsavel", "banco", "dataContratacaoFormatada",
        "vencimentoContratoFormatada", "valorTotal"} \subseteq df.colunas)

\* lines 255-289: the rows of the view, valorTotal as currency text
TabelaDetalhada(df, ok) ==
    [i \in DOMAIN df.linhas |->
        [socio |-> df.linhas[i].socioResponsavel,
         banco |-> df.linhas[i].banco,
         data |-> df.linhas[i].dataContratacao,
         valorTotal |-> formatar_moeda(df.linhas[i].valorTotal, ok)]]

(***************************************************************************)
(* The script run                                                          *)
(***************************************************************************)
processo == <<arquivo, cache, leituras, preparos, execucoes, locale_ok>>
direto == <<valor, texto>>
filtros == <<filtro_socio, filtro_banco, filtro_contrato, ano_selecionado,
             df_filtrado>>
saidas == <<total_divida, metrica, consolidado, divida_por_banco, agrupado,
            granularidade, df_detalhada>>

\* the state a script run starts from: nothing of the previous run survives
\* but the cache
InicioDaExecucao ==
    /\ pc = "inicio"
    /\ dados = DictVazio
    /\ contratos = DataFrameVazio
    /\ df_filtrado = DataFrameVazio
    /\ ano_selecionado = Nenhum
    /\ filtro_socio = {}
    /\ filtro_banco = Nenhum
    /\ filtro_contrato = {}
    /\ total_divida = 0
    /\ metrica = <<>>
    /\ consolidado = <<>>
    /\ divida_por_banco = <<>>
    /\ agrupado = <<>>
    /\ granularidade = "nenhuma"
    /\ df_detalhada = <<>>
    /\ passos = <<>>
    /\ mensagens = <<>>

Init ==
    /\ arquivo \in Arquivos
    /\ cache = [p \in Caminhos |-> CacheVazio]
    /\ leituras = [p \in Caminhos |-> 0]
    /\ preparos = 0
    /\ execucoes = 1
    /\ locale_ok = FALSE
    /\ valor = 0
    /\ texto = <<>>
    /\ InicioDaExecucao

CarregarDadosSemCache(p) ==
    /\ pc = "inicio"
    /\ LET r == carregar_dados(arquivo)
       IN /\ dados' = r.retorno
          /\ mensagens' = mensagens \o r.erros
          /\ leituras' = [leituras EXCEPT ![p] = @ + r.lido]
          /\ cache' = [cache EXCEPT ![p] =
                          [cheio |-> TRUE, retorno |-> r.retorno,
                           erros |-> r.erros]]
    /\ pc' = "carregado"
    /\ UNCHANGED <<arquivo, preparos, execucoes, locale_ok, contratos,
                   passos>>
    /\ UNCHANGED <<filtros, saidas, direto>>

\* line 319 with the decorator of line 32: a hit returns the stored value
\* and replays the stored st.error calls; a miss runs the body and stores
CarregarDados(p) ==
    /\ pc = "inicio"
    /\ \/ /\ cache[p].cheio
          /\ dados' = cache[p].retorno
          /\ mensagens' = mensagens \o cache[p].erros
          /\ UNCHANGED <<cache, leituras>>
       \/ /\ ~cache[p].cheio
          /\ LET r == carregar_dados(arquivo)
             IN /\ dados' = r.retorno
                /\ mensagens' = mensagens \o r.erros
                /\ leituras' = [leituras EXCEPT ![p] = @ + r.lido]
                /\ cache' = [cache EXCEPT ![p] =
                                [cheio |-> TRUE, retorno |-> r.retorno,
                                 erros |-> r.erros]]
    /\ pc' = "carregado"
    /\ UNCHANGED <<arquivo, preparos, execucoes, locale_ok, contratos,
                   passos>>
    /\ UNCHANGED <<filtros, saidas, direto>>

\* lines 320-325: build the Dashboard, or report that there are no contracts
Principal ==
    /\ pc = "carregado"
    /\ \/ /\ ~dados.vazio /\ dados.temContratos
          /\ pc' = "construido"
          /\ UNCHANGED mensagens
       \/ /\ dados.vazio \/ ~dados.temContratos
          /\ mensagens' = Append(mensagens, "nao foi possivel carregar")
          /\ pc' = "fim"
    /\ UNCHANGED <<processo, dados, contratos, passos>>
    /\ UNCHANGED <<filtros, saidas, direto>>

\* line 322
PrepararDados ==
    /\ pc = "construido"
    /\ contratos' = preparar_dados(dados)
    /\ preparos' = preparos + 1
    /\ pc' = "preparado"
    /\ UNCHANGED <<arquivo, cache, leituras, execucoes, locale_ok, dados,
                   passos, mensagens>>
    /\ UNCHANGED <<filtros, saidas, direto>>

\* a multiselect returns its default (every option) in the first run of a
\* session and whatever the user left selected in a later one
Multiselect(opcoes) ==
    IF execucoes = 1 THEN {opcoes} ELSE SUBSET opcoes

\* line 299: renderizar_filtros, lines 69-111
RenderizarFiltros ==
    /\ pc = "preparado"
    /\ passos' = Append(passos, "filtros")
    /\ \/ /\ FiltrosFalham(contratos)
          /\ pc' = "erro"
          /\ UNCHANGED filtros
       \/ /\ ~FiltrosFalham(contratos)
          /\ \E fs \in Multiselect(Coluna(contratos, "socioResponsavel")),
                fc \in Multiselect(Coluna(contratos, "tipoContrato")),
                fb \in IF "banco" \in contratos.colunas
                       THEN {Algum(x) : x \in Multiselect(Coluna(contratos, "banco"))}
                       ELSE {Nenhum},
                fa \in IF "dataContratacao" \in contratos.colunas
                       THEN {Algum(x) : x \in Multiselect(AnosConhecidos(contratos))}
                       ELSE {Nenhum} :
                /\ filtro_socio' = fs
                /\ filtro_banco' = fb
                /\ filtro_contrato' = fc
                /\ ano_selecionado' = fa
                /\ df_filtrado' = Indexar(contratos, Cond(contratos, fs, fb, fc, fa))
          /\ pc' = "filtrado"
    /\ UNCHANGED <<processo, dados, contratos, mensagens>>
    /\ UNCHANGED <<saidas, direto>>

\* lines 301-303
SemDados ==
    /\ pc = "filtrado"
    /\ df_filtrado.linhas = <<>>
    /\ mensagens' = Append(mensagens, "nenhum dado encontrado")
    /\ pc' = "fim"
    /\ UNCHANGED <<processo, dados, contratos, passos>>
    /\ UNCHANGED <<filtros, saidas, direto>>

RenderizarResumoSemTeste ==
    /\ pc = "filtrado"
    /\ passos' = Append(passos, "resumo")
    /\ \/ /\ "valorTotal" \notin df_filtrado.colunas
          /\ pc' = "erro"
          /\ UNCHANGED <<total_divida, metrica>>
       \/ /\ "valorTotal" \in df_filtrado.colunas
          /\ total_divida' = Soma(df_filtrado.linhas)
          /\ metrica' = formatar_moeda(Soma(df_filtrado.linhas), locale_ok)
          /\ pc' = "resumido"
    /\ UNCHANGED <<processo, dados, contratos, mensagens>>
    /\ UNCHANGED <<consolidado, divida_por_banco, agrupado, granularidade,
                   df_detalhada>>
    /\ UNCHANGED <<filtros, direto>>

\* line 308 after the test of line 301: renderizar_resumo, lines 129-133
RenderizarResumo ==
    /\ pc = "filtrado"
    /\ df_filtrado.linhas # <<>>
    /\ passos' = Append(passos, "resumo")
    /\ \/ /\ "valorTotal" \notin df_filtrado.colunas
          /\ pc' = "erro"
          /\ UNCHANGED <<total_divida, metrica>>
       \/ /\ "valorTotal" \in df_filtrado.colunas
          /\ total_divida' = Soma(df_filtrado.linhas)
          /\ metrica' = formatar_moeda(Soma(df_filtrado.linhas), locale_ok)
          /\ pc' = "resumido"
    /\ UNCHANGED <<processo, dados, contratos, mensagens>>
    /\ UNCHANGED <<consolidado, divida_por_banco, agrupado, granularidade,
                   df_detalhada>>
    /\ UNCHANGED <<filtros, direto>>

\* line 310: renderizar_tabela_consolidada, lines 113-127
RenderizarTabelaConsolidada ==
    /\ pc = "resumido"
    /\ passos' = Append(passos, "consolidada")
    /\ consolidado' = TabelaConsolidada(df_filtrado, locale_ok)
    /\ pc' = "consolidada"
    /\ UNCHANGED <<processo, dados, contratos, mensagens>>
    /\ UNCHANGED <<total_divida, metrica, divida_por_banco, agrupado,
                   granularidade, df_detalhada>>
    /\ UNCHANGED <<filtros, direto>>

\* line 313: renderizar_graficos, lines 135-250
RenderizarGraficos ==
    /\ pc = "consolidada"
    /\ passos' = Append(passos, "graficos")
    /\ \/ /\ "banco" \notin df_filtrado.colunas
          /\ pc' = "erro"
          /\ UNCHANGED <<divida_por_banco, agrupado, granularidade, mensagens>>
       \/ /\ "banco" \in df_filtrado.colunas
          /\ "dataContratacao" \notin df_filtrado.colunas
          /\ divida_por_banco' = DividaPorBanco(df_filtrado)
          /\ mensagens' = Append(mensagens, "coluna dataContratacao nao disponivel")
          /\ pc' = "graficos"
          /\ UNCHANGED <<agrupado, granularidade>>
       \/ /\ "banco" \in df_filtrado.colunas
          /\ "dataContratacao" \in df_filtrado.colunas
          /\ PorMes(ano_selecionado)
          /\ divida_por_banco' = DividaPorBanco(df_filtrado)
          /\ agrupado' = AgrupadoPorMes(df_filtrado)
          /\ granularidade' = "mes"
          /\ pc' = "graficos"
          /\ UNCHANGED mensagens
       \/ /\ "banco" \in df_filtrado.colunas
          /\ "dataContratacao" \in df_filtrado.colunas
          /\ ~PorMes(ano_selecionado)
          /\ divida_por_banco' = DividaPorBanco(df_filtrado)
          /\ IF AnoFalha(df_filtrado)
             THEN /\ pc' = "erro"
                  /\ UNCHANGED <<agrupado, granularidade>>
             ELSE /\ agrupado' = AgrupadoPorAno(df_filtrado)
                  /\ granularidade' = "ano"
                  /\ pc' = "graficos"
          /\ UNCHANGED mensagens
    /\ UNCHANGED <<processo, dados, contratos>>
    /\ UNCHANGED <<total_divida, metrica, consolidado, df_detalhada>>
    /\ UNCHANGED <<filtros, direto>>

\* line 316: renderizar_tabela_detalhada, lines 252-291
RenderizarTabelaDetalhada ==
    /\ pc = "graficos"
    /\ passos' = Append(passos, "detalhada")
    /\ \/ /\ DetalhadaFalha(df_filtrado)
          /\ pc' = "erro"
          /\ UNCHANGED df_detalhada
       \/ /\ ~DetalhadaFalha(df_filtrado)
          /\ df_detalhada' = TabelaDetalhada(df_filtrado, locale_ok)
          /\ pc' = "fim"
    /\ UNCHANGED <<processo, dados, contratos, mensagens>>
    /\ UNCHANGED <<total_divida, metrica, consolidado, divida_por_banco,
                   agrupado, granularidade>>
    /\ UNCHANGED <<filtros, direto>>

\* Streamlit runs the script again, top to bottom, on every interaction;
\* only the st.cache_data store outlives a run
NovaExecucao ==
    /\ pc \in {"fim", "erro"}
    /\ execucoes < MaxExecucoes
    /\ execucoes' = execucoes + 1
    /\ pc' = "inicio"
    /\ dados' = DictVazio
    /\ contratos' = DataFrameVazio
    /\ df_filtrado' = DataFrameVazio
    /\ ano_selecionado' = Nenhum
    /\ filtro_socio' = {}
    /\ filtro_banco' = Nenhum
    /\ filtro_contrato' = {}
    /\ total_divida' = 0
    /\ metrica' = <<>>
    /\ consolidado' = <<>>
    /\ divida_por_banco' = <<>>
    /\ agrupado' = <<>>
    /\ granularidade' = "nenhuma"
    /\ df_detalhada' = <<>>
    /\ passos' = <<>>
    /\ mensagens' = <<>>
    /\ UNCHANGED <<arquivo, cache, leituras, preparos, locale_ok>>
    /\ UNCHANGED direto

Next ==
    \/ \E p \in Caminhos : CarregarDados(p)
    \/ Principal
    \/ PrepararDados
    \/ RenderizarFiltros
    \/ SemDados
    \/ RenderizarResumo
    \/ RenderizarTabelaConsolidada
    \/ RenderizarGraficos
    \/ RenderizarTabelaDetalhada
    \/ NovaExecucao

Spec == Init /\ [][Next]_vars

(***************************************************************************)
(* formatar_moeda on its own, over a range of amounts in centavos          *)
(***************************************************************************)
Quantias ==
    (0 .. MaxCentavos) \cup {123450 * 7 ^ e : e \in 0 .. MaxExpoente}

InitMoeda ==
    /\ arquivo = [estado |-> "inexistente", doc |-> DictVazio]
    /\ cache = [p \in Caminhos |-> CacheVazio]
    /\ leituras = [p \in Caminhos |-> 0]
    /\ preparos = 0
    /\ execucoes = 1
    /\ locale_ok \in BOOLEAN
    /\ valor \in Quantias
    /\ texto = <<>>
    /\ InicioDaExecucao

FormatarMoeda ==
    /\ pc = "inicio"
    /\ texto' = formatar_moeda(valor, locale_ok)
    /\ pc' = "formatado"
    /\ UNCHANGED <<processo, dados, contratos, passos, mensagens, valor>>
    /\ UNCHANGED <<filtros, saidas>>

NextMoeda == FormatarMoeda

SpecMoeda == InitMoeda /\ [][NextMoeda]_vars

(***************************************************************************)
(* Properties                                                              *)
(***************************************************************************)
Agregacoes == {"resumo", "consolidada", "graficos", "detalhada"}

\* renderizar_filtros has returned in this run (it did not raise)
FiltroConcluido == passos # <<>> /\ ~ (pc = "erro" /\ Len(passos) = 1)

\* the sum of the amounts of the rows with index in I, NaN taken as nothing
RECURSIVE SomaDe(_, _)
SomaDe(linhas, I) ==
    IF I = {} THEN 0
    ELSE LET i == CHOOSE x \in I : TRUE
         IN (IF linhas[i].valorTotal = NaNNum THEN 0 ELSE linhas[i].valorTotal)
                + SomaDe(linhas, I \ {i})

RECURSIVE SomaCampo(_, _)
SomaCampo(s, c) ==
    IF s = <<>> THEN 0 ELSE Head(s)[c] + SomaCampo(Tail(s), c)

\* the dataset has the lender / the year dimension: some record of the
\* document carries the key banco / dataContratacao
TemDimensaoBanco ==
    \E i \in DOMAIN dados.contratos : dados.contratos[i].banco # NaNStr

TemDimensaoAno ==
    \E i \in DOMAIN dados.contratos :
        dados.contratos[i].dataContratacao.k # "ausente"

Passa(r) ==
    /\ r.socioResponsavel \in filtro_socio
    /\ r.tipoContrato \in filtro_contrato
    /\ (~TemDimensaoBanco \/ r.banco \in filtro_banco.itens)
    /\ (~TemDimensaoAno
           \/ (r.dataContratacao # NaT
                  /\ r.dataContratacao.ano \in ano_selecionado.itens))

BaldesCertos(v, Chave(_)) ==
    /\ \A i, j \in DOMAIN agrupado :
          i < j => agrupado[i].chave < agrupado[j].chave
    /\ {agrupado[i].chave : i \in DOMAIN agrupado}
          = {Chave(v[j]) : j \in DOMAIN v}
    /\ \A i \in DOMAIN agrupado :
          agrupado[i].valorTotal
              = SomaDe(v, {j \in DOMAIN v : Chave(v[j]) = agrupado[i].chave})

MesDe(r) == r.dataContratacao.mes

AnoDe(r) == r.dataContratacao.ano

\* C2: the time series built over the view has one bucket per month, in
\* calendar order and named in Portuguese, all of the single selected year,
\* when exactly one year is selected, and one bucket per calendar year in
\* ascending order otherwise; a bucket exists only for a month or year that
\* has a record in the view, and its value is the sum of those records.
C2_SerieTemporal ==
    (pc = "graficos" /\ "dataContratacao" \in df_filtrado.colunas) =>
        IF Cardinality(ano_selecionado.itens) = 1
        THEN /\ granularidade = "mes"
             /\ \A j \in DOMAIN df_filtrado.linhas :
                   AnoDe(df_filtrado.linhas[j]) \in ano_selecionado.itens
             /\ BaldesCertos(df_filtrado.linhas, MesDe)
             /\ \A i \in DOMAIN agrupado :
                   /\ agrupado[i].chave \in 1 .. 12
                   /\ agrupado[i].rotulo = meses_pt[agrupado[i].chave]
        ELSE /\ granularidade = "ano"
             /\ BaldesCertos(df_filtrado.linhas, AnoDe)

\* C2 witness: the records span two years, one year is selected and the
\* series has month buckets
C2_Testemunha ==
    /\ pc = "graficos"
    /\ granularidade = "mes"
    /\ agrupado # <<>>
    /\ Cardinality(AnosConhecidos(contratos)) = 2
    /\ Cardinality(ano_selecionado.itens) = 1

C2_TestemunhaAnos ==
    /\ pc = "graficos"
    /\ granularidade = "ano"
    /\ Len(agrupado) = 2

DataInvalidaSelecionada(i) ==
    /\ dados.contratos[i].dataContratacao.k = "invalida"
    /\ contratos.linhas[i].socioResponsavel \in filtro_socio
    /\ contratos.linhas[i].tipoContrato \in filtro_contrato
    /\ (filtro_banco.def => contratos.linhas[i].banco \in filtro_banco.itens)

\* C3 as stated: when the consolidation is computed, every record with an
\* unparseable dataContratacao whose partner, contract type and lender are
\* selected is among the records it counts.
C3_DataDesconhecidaContada ==
    pc = "consolidada" =>
        \A i \in DOMAIN contratos.linhas :
            DataInvalidaSelecionada(i) =>
                \E j \in DOMAIN df_filtrado.linhas :
                    df_filtrado.linhas[j] = contratos.linhas[i]

\* C3 amended: a record with an unparseable dataContratacao never passes
\* the filter, so no row with an unknown date is in the view, the detail
\* table, the lender totals or the consolidation counts.
C3_DataDesconhecidaExcluida ==
    (FiltroConcluido
        /\ \E i \in DOMAIN dados.contratos :
              dados.contratos[i].dataContratacao.k = "invalida") =>
        /\ \A j \in DOMAIN df_filtrado.linhas :
              df_filtrado.linhas[j].dataContratacao # NaT
        /\ \A j \in DOMAIN df_detalhada : df_detalhada[j].data # NaT
        /\ SomaCampo(consolidado, "qtd")
              <= Cardinality({i \in DOMAIN contratos.linhas :
                                 contratos.linhas[i].dataContratacao # NaT})

\* C3 witness: the consolidation ran while a record with an unparseable
\* date had its partner, contract type and lender selected
C3_Testemunha ==
    /\ pc = "consolidada"
    /\ \E i \in DOMAIN contratos.linhas : DataInvalidaSelecionada(i)

C5_ConsolidadoCobre ==
    pc = "consolidada" =>
        /\ \A i, j \in DOMAIN consolidado :
              consolidado[i].socio = consolidado[j].socio => i = j
        /\ {consolidado[i].socio : i \in DOMAIN consolidado}
              = Coluna(df_filtrado, "socioResponsavel")
        /\ SomaCampo(consolidado, "qtd") = Len(df_filtrado.linhas)

\* C6 as stated: with an empty list of contracts no step raises, the view
\* is empty and every aggregate is zero or empty.
C6_ListaVazia ==
    (dados.temContratos /\ dados.contratos = <<>>) =>
        /\ pc # "erro"
        /\ df_filtrado.linhas = <<>>
        /\ total_divida = 0
        /\ consolidado = <<>>
        /\ divida_por_banco = <<>>
        /\ agrupado = <<>>

BemFormado(r) ==
    /\ r.socioResponsavel # NaNStr
    /\ r.tipoContrato # NaNStr
    /\ r.valorTotal # NaNNum

\* C7 as stated: after loading, the repository holds exactly the records
\* that have partner, contract type and amount; the others were skipped.
C7_RegistrosIgnorados ==
    pc = "preparado" =>
        Len(contratos.linhas)
            = Cardinality({i \in DOMAIN dados.contratos :
                              BemFormado(dados.contratos[i])})

PosPreparo == {"preparado", "filtrado", "resumido", "consolidada", "graficos"}

C9_FiltroAntes ==
    /\ \A i \in DOMAIN passos :
          passos[i] \in Agregacoes => (i > 1 /\ passos[1] = "filtros")
    /\ (FiltroConcluido /\ df_filtrado.linhas = <<>>) =>
          /\ passos = <<"filtros">>
          /\ pc \in {"filtrado", "fim"}
          /\ (pc = "fim" => "nenhum dado encontrado" \in Range(mensagens))

\* C9 witness: a run over a non-empty repository ended with the warning
C9_Testemunha ==
    /\ pc = "fim"
    /\ contratos.linhas # <<>>
    /\ df_filtrado.linhas = <<>>
    /\ passos = <<"filtros">>
    /\ "nenhum dado encontrado" \in Range(mensagens)

Algarismos == {Digito(d) : d \in 0 .. 9}

DigitoValor(ch) == CHOOSE d \in 0 .. 9 : Digito(d) = ch

RECURSIVE Numero(_)
Numero(ds) ==
    IF ds = <<>> THEN 0
    ELSE Numero(SubSeq(ds, 1, Len(ds) - 1)) * 10 + DigitoValor(ds[Len(ds)])

\* C10: on the fallback path the text is "R$ " followed by the integer part
\* in groups of three digits separated by ".", then "," and exactly two
\* decimal digits, and it reads back as the amount; 1234.5 gives
\* "R$ 1.234,50".
C10_Fallback ==
    (pc = "formatado" /\ ~locale_ok) =>
        LET n == Len(texto)
            inteiro == SubSeq(texto, 4, n - 3)
            m == Len(inteiro)
        IN /\ n >= 7
           /\ SubSeq(texto, 1, 3) = <<"R", "$", " ">>
           /\ texto[n - 2] = ","
           /\ texto[n - 1] \in Algarismos
           /\ texto[n] \in Algarismos
           /\ \A i \in 1 .. m :
                 IF (m - i + 1) % 4 = 0 THEN inteiro[i] = "."
                 ELSE inteiro[i] \in Algarismos
           /\ (m > 1 => inteiro[1] # "0")
           /\ Numero(SelectSeq(texto, LAMBDA ch : ch \in Algarismos)) = valor
           /\ (valor = 123450 =>
                  texto = <<"R", "$", " ", "1", ".", "2", "3", "4", ",", "5", "0">>)

\* C10 witness: 1234.5 was formatted on the fallback path
C10_Testemunha ==
    /\ pc = "formatado"
    /\ ~locale_ok
    /\ valor = 123450
    /\ texto = <<"R", "$", " ", "1", ".", "2", "3", "4", ",", "5", "0">>

====
